---- MODULE Spec2Model ----
(***************************************************************************)
(* Menu service of src/server.js (the max-id+1 version, lines 125-250):    *)
(* an express application holding the menu in the in-memory array          *)
(* menuItems, with express-validator chains in front of the create and     *)
(* update handlers.                                                        *)
(*                                                                         *)
(* JSON values are tagged records. Text is a sequence of one-character     *)
(* strings, so that trim, escape and parseInt are computed character by    *)
(* character. Numbers are counted in hundredths (12.99 is 1299, the id 1   *)
(* is 100). A key that is absent from an object is the value Undef.        *)
(***************************************************************************)
EXTENDS Integers, Sequences, FiniteSets, TLC

VARIABLES menuItems, req, res, deleted, handled, inflight, order

vars == <<menuItems, req, res, deleted, handled, inflight, order>>

\* Number of requests the model lets the server handle.
MaxRequests == 3

\* Number of clients whose requests are in flight at the same time.
MaxClients == 3

(***************************************************************************)
(* JSON values (express.json() parses the request body into these)         *)
(***************************************************************************)
Undef == [t |-> "undefined", s |-> <<>>, n |-> 0]
Str(chars) == [t |-> "string", s |-> chars, n |-> 0]
Num(hundredths) == [t |-> "number", s |-> <<>>, n |-> hundredths]
JsInt(k) == Num(100 * k)
Bool(b) == [t |-> "boolean", s |-> <<>>, n |-> IF b THEN 1 ELSE 0]
Arr(elems) == [t |-> "array", s |-> elems, n |-> 0]
NaN == [t |-> "number", s |-> <<"NaN">>, n |-> 0]

IsNaN(v) == v.t = "number" /\ v.s = <<"NaN">>

\* JavaScript === on the values above: NaN equals nothing, not even itself.
StrictEq(a, b) == ~IsNaN(a) /\ ~IsNaN(b) /\ a = b

(***************************************************************************)
(* Characters and numerals                                                 *)
(***************************************************************************)
Digits == <<"0", "1", "2", "3", "4", "5", "6", "7", "8", "9">>

IsDigit(c) == \E i \in 1..10 : Digits[i] = c

DigitVal(c) == (CHOOSE i \in 1..10 : Digits[i] = c) - 1

RECURSIVE NatToChars(_)
NatToChars(k) ==
    IF k < 10 THEN <<Digits[k + 1]>>
    ELSE NatToChars(k \div 10) \o <<Digits[(k % 10) + 1]>>

\* String(x) of a JavaScript number held in hundredths.
NumToString(h) ==
    LET a == IF h < 0 THEN -h ELSE h
        sign == IF h < 0 THEN <<"-">> ELSE <<>>
        ip == NatToChars(a \div 100)
        fp == a % 100
    IN  sign \o ip \o
        (IF fp = 0 THEN <<>>
         ELSE IF fp % 10 = 0 THEN <<".", Digits[(fp \div 10) + 1]>>
         ELSE <<".", Digits[(fp \div 10) + 1], Digits[(fp % 10) + 1]>>)

RECURSIVE DigitPrefixLen(_)
DigitPrefixLen(chars) ==
    IF chars # <<>> /\ IsDigit(Head(chars))
    THEN 1 + DigitPrefixLen(Tail(chars))
    ELSE 0

RECURSIVE DigitsVal(_)
DigitsVal(chars) ==
    IF chars = <<>> THEN 0
    ELSE 10 * DigitsVal(SubSeq(chars, 1, Len(chars) - 1))
         + DigitVal(chars[Len(chars)])

RECURSIVE LTrim(_)
LTrim(chars) ==
    IF chars # <<>> /\ Head(chars) = " " THEN LTrim(Tail(chars)) ELSE chars

RECURSIVE RTrim(_)
RTrim(chars) ==
    IF chars # <<>> /\ chars[Len(chars)] = " "
    THEN RTrim(SubSeq(chars, 1, Len(chars) - 1))
    ELSE chars

\* parseInt(segment, 10): leading blanks and a sign are skipped, the leading
\* digits are read, anything after them is ignored; no digit gives NaN.
ParseInt(chars) ==
    LET u == LTrim(chars)
        signed == u # <<>> /\ Head(u) \in {"-", "+"}
        neg == u # <<>> /\ Head(u) = "-"
        w == IF signed THEN Tail(u) ELSE u
        k == DigitPrefixLen(w)
    IN  IF k = 0 THEN NaN
        ELSE JsInt((IF neg THEN -1 ELSE 1) * DigitsVal(SubSeq(w, 1, k)))

(***************************************************************************)
(* express-validator: stringification, sanitizers and validators           *)
(***************************************************************************)
\* toString() applied to a field before a standard validator or sanitizer.
ToStr(v) ==
    CASE v.t = "string" -> v.s
      [] v.t = "undefined" -> <<>>
      [] v.t = "boolean" ->
            IF v.n = 1 THEN <<"t", "r", "u", "e">> ELSE <<"f", "a", "l", "s", "e">>
      [] v.t = "number" -> IF IsNaN(v) THEN <<>> ELSE NumToString(v.n)

Trim(chars) == RTrim(LTrim(chars))

EscapeChar(c) ==
    CASE c = "&" -> <<"&", "a", "m", "p", ";">>
      [] c = "<" -> <<"&", "l", "t", ";">>
      [] c = ">" -> <<"&", "g", "t", ";">>
      [] c = "\"" -> <<"&", "q", "u", "o", "t", ";">>
      [] c = "'" -> <<"&", "#", "x", "2", "7", ";">>
      [] c = "/" -> <<"&", "#", "x", "2", "F", ";">>
      [] c = "\\" -> <<"&", "#", "x", "5", "C", ";">>
      [] OTHER -> <<c>>

RECURSIVE Escape(_)
Escape(chars) ==
    IF chars = <<>> THEN <<>>
    ELSE EscapeChar(Head(chars)) \o Escape(Tail(chars))

IsString(v) == v.t = "string"

IsLength(chars, min) == Len(chars) >= min

\* isFloat({ gt: 0 }) on a numeral without exponent: an optional sign, digits,
\* an optional point and digits; its value must exceed 0.
FloatShape(chars) ==
    LET u == IF chars # <<>> /\ Head(chars) \in {"-", "+"} THEN Tail(chars) ELSE chars
        k == DigitPrefixLen(u)
        rest == SubSeq(u, k + 1, Len(u))
    IN  /\ chars \notin {<<>>, <<".">>, <<"-">>, <<"+">>}
        /\ \/ rest = <<>>
           \/ /\ Head(rest) = "."
              /\ DigitPrefixLen(Tail(rest)) = Len(rest) - 1

\* parseFloat of a numeral of FloatShape, in hundredths (two decimals kept).
ParseFloat(chars) ==
    LET neg == chars # <<>> /\ Head(chars) = "-"
        u == IF chars # <<>> /\ Head(chars) \in {"-", "+"} THEN Tail(chars) ELSE chars
        k == DigitPrefixLen(u)
        frac == SubSeq(u, k + 2, Len(u))
        d1 == IF Len(frac) >= 1 THEN DigitVal(frac[1]) ELSE 0
        d2 == IF Len(frac) >= 2 THEN DigitVal(frac[2]) ELSE 0
        a == 100 * DigitsVal(SubSeq(u, 1, k)) + 10 * d1 + d2
    IN  IF neg THEN -a ELSE a

IsFloatGt0(chars) == FloatShape(chars) /\ ParseFloat(chars) > 0

Categories ==
    { <<"a", "p", "p", "e", "t", "i", "z", "e", "r">>,
      <<"e", "n", "t", "r", "e", "e">>,
      <<"d", "e", "s", "s", "e", "r", "t">>,
      <<"b", "e", "v", "e", "r", "a", "g", "e">> }

IsIn(chars, allowed) == chars \in allowed

IsArray(v, min) == v.t = "array" /\ Len(v.s) >= min

IsBoolean(chars) ==
    chars \in { <<"t", "r", "u", "e">>, <<"f", "a", "l", "s", "e">>, <<"1">>, <<"0">> }

(***************************************************************************)
(* Menu items and request bodies                                           *)
(***************************************************************************)
Fields == {"id", "name", "description", "price", "category", "ingredients", "available"}

Item(id, name, description, price, category, ingredients, available) ==
    [id |-> id, name |-> name, description |-> description, price |-> price,
     category |-> category, ingredients |-> ingredients, available |-> available]

\* {}: the object with no key.
EmptyObject == Item(Undef, Undef, Undef, Undef, Undef, Undef, Undef)

\* { ...obj, ...src }: every key present in src overrides the key of obj.
Spread(obj, src) ==
    [f \in Fields |-> IF src[f] # Undef THEN src[f] ELSE obj[f]]

Seed1 ==
    Item(JsInt(1),
         Str(<<"C", "l", "a", "s", "s", "i", "c", " ", "B", "u", "r", "g", "e", "r">>),
         Str(<<"J", "u", "i", "c", "y", " ", "b", "e", "e", "f", " ", "p", "a", "t", "t", "y", " ", "w", "i", "t", "h", " ", "f", "r", "e", "s", "h", " ", "t", "o", "p", "p", "i", "n", "g", "s">>),
         Num(1299), Str(<<"e", "n", "t", "r", "e", "e">>),
         Arr(<<"beef", "lettuce", "tomato", "cheese">>), Bool(TRUE))
Seed2 ==
    Item(JsInt(2),
         Str(<<"C", "h", "i", "c", "k", "e", "n", " ", "C", "a", "e", "s", "a", "r", " ", "S", "a", "l", "a", "d">>),
         Str(<<"C", "r", "i", "s", "p", " ", "r", "o", "m", "a", "i", "n", "e", " ", "l", "e", "t", "t", "u", "c", "e", " ", "w", "i", "t", "h", " ", "g", "r", "i", "l", "l", "e", "d", " ", "c", "h", "i", "c", "k", "e", "n">>),
         Num(1150), Str(<<"e", "n", "t", "r", "e", "e">>),
         Arr(<<"chicken", "romaine", "parmesan", "croutons">>), Bool(TRUE))
Seed3 ==
    Item(JsInt(3),
         Str(<<"M", "o", "z", "z", "a", "r", "e", "l", "l", "a", " ", "S", "t", "i", "c", "k", "s">>),
         Str(<<"G", "o", "l", "d", "e", "n", " ", "f", "r", "i", "e", "d", " ", "m", "o", "z", "z", "a", "r", "e", "l", "l", "a", " ", "w", "i", "t", "h", " ", "m", "a", "r", "i", "n", "a", "r", "a", " ", "s", "a", "u", "c", "e">>),
         Num(899), Str(<<"a", "p", "p", "e", "t", "i", "z", "e", "r">>),
         Arr(<<"mozzarella", "breading", "marinara">>), Bool(TRUE))
Seed4 ==
    Item(JsInt(4),
         Str(<<"C", "h", "o", "c", "o", "l", "a", "t", "e", " ", "L", "a", "v", "a", " ", "C", "a", "k", "e">>),
         Str(<<"W", "a", "r", "m", " ", "c", "h", "o", "c", "o", "l", "a", "t", "e", " ", "c", "a", "k", "e", " ", "w", "i", "t", "h", " ", "m", "o", "l", "t", "e", "n", " ", "c", "e", "n", "t", "e", "r">>),
         Num(799), Str(<<"d", "e", "s", "s", "e", "r", "t">>),
         Arr(<<"chocolate", "flour", "eggs", "butter">>), Bool(TRUE))
Seed5 ==
    Item(JsInt(5),
         Str(<<"F", "r", "e", "s", "h", " ", "L", "e", "m", "o", "n", "a", "d", "e">>),
         Str(<<"R", "e", "f", "r", "e", "s", "h", "i", "n", "g", " ", "h", "o", "m", "e", "m", "a", "d", "e", " ", "l", "e", "m", "o", "n", "a", "d", "e">>),
         Num(399), Str(<<"b", "e", "v", "e", "r", "a", "g", "e">>),
         Arr(<<"lemon juice", "water", "sugar">>), Bool(TRUE))
Seed6 ==
    Item(JsInt(6),
         Str(<<"A", "p", "p", "l", "e", " ", "P", "i", "e">>),
         Str(<<"C", "l", "a", "s", "s", "i", "c", " ", "a", "p", "p", "l", "e", " ", "p", "i", "e", " ", "w", "i", "t", "h", " ", "c", "i", "n", "n", "a", "m", "o", "n", " ", "s", "p", "i", "c", "e">>),
         Num(450), Str(<<"d", "e", "s", "s", "e", "r", "t">>),
         Arr(<<"apples", "cinnamon", "flour", "sugar">>), Bool(TRUE))
Seed7 ==
    Item(JsInt(7),
         Str(<<"C", "h", "i", "c", "k", "e", "n", " ", "O", "v", "e", "r", " ", "R", "i", "c", "e">>),
         Str(<<"G", "r", "i", "l", "l", "e", "d", " ", "c", "h", "i", "c", "k", "e", "n", " ", "s", "e", "r", "v", "e", "d", " ", "o", "v", "e", "r", " ", "s", "e", "a", "s", "o", "n", "e", "d", " ", "y", "e", "l", "l", "o", "w", " ", "r", "i", "c", "e", " ", "w", "i", "t", "h", " ", "w", "h", "i", "t", "e", " ", "s", "a", "u", "c", "e">>),
         Num(1050), Str(<<"e", "n", "t", "r", "e", "e">>),
         Arr(<<"Chicken", "Rice", "White Sauce", "Pita">>), Bool(TRUE))
Seed8 ==
    Item(JsInt(8),
         Str(<<"F", "i", "s", "h", " ", "o", "v", "e", "r", " ", "R", "i", "c", "e">>),
         Str(<<"G", "r", "i", "l", "l", "e", "d", " ", "o", "r", " ", "f", "r", "i", "e", "d", " ", "f", "i", "s", "h", " ", "s", "e", "r", "v", "e", "d", " ", "o", "v", "e", "r", " ", "w", "h", "i", "t", "e", " ", "a", "n", "d", " ", "h", "o", "t", " ", "s", "a", "u", "c", "e", "s">>),
         Num(1800), Str(<<"e", "n", "t", "r", "e", "e">>),
         Arr(<<"Fry Fish", "Rice", "Shrimp", "lettuces", "white sauces">>), Bool(TRUE))

\* The array menuItems as the module is loaded.
SeedItems == <<Seed1, Seed2, Seed3, Seed4, Seed5, Seed6, Seed7, Seed8>>

NameMinLen == 3
DescriptionMinLen == 10
IngredientsMin == 1

FieldError(path, msg) == [path |-> path, msg |-> msg]

\* body('name').trim().isString().isLength({ min: 3 }).escape().withMessage(..)
\* Every step of a chain runs; withMessage names the last validator's message.
NameChain(v) ==
    LET trimmed == Str(Trim(ToStr(v)))
        e1 == IF IsString(trimmed) THEN <<>>
              ELSE <<FieldError("name", "Invalid value")>>
        e2 == IF IsLength(ToStr(trimmed), NameMinLen) THEN <<>>
              ELSE <<FieldError("name", "Name must be at least 3 characters")>>
    IN  [errors |-> e1 \o e2, value |-> Str(Escape(ToStr(trimmed)))]

DescriptionChain(v) ==
    LET trimmed == Str(Trim(ToStr(v)))
        e1 == IF IsString(trimmed) THEN <<>>
              ELSE <<FieldError("description", "Invalid value")>>
        e2 == IF IsLength(ToStr(trimmed), DescriptionMinLen) THEN <<>>
              ELSE <<FieldError("description",
                                "Description must be at least 10 characters")>>
    IN  [errors |-> e1 \o e2, value |-> Str(Escape(ToStr(trimmed)))]

PriceChain(v) ==
    [errors |-> IF IsFloatGt0(ToStr(v)) THEN <<>>
                ELSE <<FieldError("price", "Price must be a positive number")>>,
     value |-> v]

CategoryChain(v) ==
    [errors |-> IF IsIn(ToStr(v), Categories) THEN <<>>
                ELSE <<FieldError("category", "Invalid category")>>,
     value |-> v]

IngredientsChain(v) ==
    [errors |-> IF IsArray(v, IngredientsMin) THEN <<>>
                ELSE <<FieldError("ingredients", "At least one ingredient is required")>>,
     value |-> v]

\* optional(): the chain is skipped when the key is absent.
AvailableChain(v) ==
    [errors |-> IF v = Undef \/ IsBoolean(ToStr(v)) THEN <<>>
                ELSE <<FieldError("available", "Available must be true or false")>>,
     value |-> v]

\* The six chains run in order on req.body; the sanitized values are written
\* back into req.body and the errors are collected for validationResult(req).
menuValidation(body) ==
    LET n == NameChain(body.name)
        d == DescriptionChain(body.description)
        p == PriceChain(body.price)
        c == CategoryChain(body.category)
        i == IngredientsChain(body.ingredients)
        a == AvailableChain(body.available)
    IN  [errors |-> n.errors \o d.errors \o p.errors \o c.errors \o i.errors \o a.errors,
         body |-> [body EXCEPT !.name = n.value, !.description = d.value]]

(***************************************************************************)
(* Responses                                                               *)
(***************************************************************************)
Response(status, kind, text, errors, items) ==
    [status |-> status, kind |-> kind, text |-> text, errors |-> errors, items |-> items,
     path |-> <<>>]

\* res.status(400).json({ status: "Validation Error", errors: [...] })
ValidationErrorResponse(errors) ==
    Response(400, "validation", "Validation Error",
             [k \in 1..Len(errors) |-> [field |-> errors[k].path, message |-> errors[k].msg]],
             <<>>)

NotFoundResponse == Response(404, "error", "Menu item not found", <<>>, <<>>)

ItemResponse(status, item) == Response(status, "item", "", <<>>, <<item>>)

\* Variant of ListResponse that lists menuItems.filter(i => i.available).
ListResponseAvailable(items) ==
    Response(200, "list", "", <<>>, SelectSeq(items, LAMBDA i : i.available = Bool(TRUE)))

ListResponse(items) == Response(200, "list", "", <<>>, items)

DeletedResponse == Response(200, "message", "Successfully deleted", <<>>, <<>>)

\* A path is the sequence of its segments: /api/menu and /api/menu/<segment>.
MenuPath(segment) ==
    IF segment = <<>> THEN << <<"a", "p", "i">>, <<"m", "e", "n", "u">> >>
    ELSE << <<"a", "p", "i">>, <<"m", "e", "n", "u">>, segment >>

\* A request that reaches a menu route: its method, req.params.id (empty when
\* the route has none), req.body and its path.
Request(method, segment, body) ==
    [method |-> method, segment |-> segment, body |-> body, path |-> MenuPath(segment)]

\* A request that reaches no route: no parameter is bound and no body is read.
UnroutedRequest(method, path) ==
    [method |-> method, segment |-> <<>>,
     body |-> [f \in {"id", "name", "description", "price", "category",
                      "ingredients", "available"} |-> Undef],
     path |-> path]

\* res.send('<h1>Server is working!</h1>...')
RootResponse == Response(200, "html", "Server is working!", <<>>, <<>>)

\* res.status(404).json({ error: "Route not found", path: req.originalUrl })
RouteNotFoundResponse(path) ==
    [Response(404, "error", "Route not found", <<>>, <<>>) EXCEPT !.path = path]

\* The route express picks for a method and a path, in registration order;
\* ":id" stands for exactly one segment. "none" falls through to the catch-all.
Route(method, path) ==
    CASE method = "GET" /\ path = <<>> -> "root"
      [] method = "GET" /\ path = MenuPath(<<>>) -> "list"
      [] method = "GET" /\ Len(path) = 3 /\ SubSeq(path, 1, 2) = MenuPath(<<>>) -> "get"
      [] method = "POST" /\ path = MenuPath(<<>>) -> "post"
      [] method = "PUT" /\ Len(path) = 3 /\ SubSeq(path, 1, 2) = MenuPath(<<>>) -> "put"
      [] method = "DELETE" /\ Len(path) = 3 /\ SubSeq(path, 1, 2) = MenuPath(<<>>) -> "delete"
      [] OTHER -> "none"

(***************************************************************************)
(* Handlers                                                                *)
(***************************************************************************)
\* menuItems.findIndex(i => i.id === id), counted from 1; 0 stands for -1.
FindIndex(items, id) ==
    IF \E k \in 1..Len(items) : StrictEq(items[k].id, id)
    THEN CHOOSE k \in 1..Len(items) :
            /\ StrictEq(items[k].id, id)
            /\ \A j \in 1..(k - 1) : ~StrictEq(items[j].id, id)
    ELSE 0

\* Math.max(...menuItems.map(i => i.id)), in hundredths.
MaxId(items) ==
    CHOOSE m \in {items[k].id.n : k \in 1..Len(items)} :
        \A k \in 1..Len(items) : items[k].id.n <= m

\* menuItems.length > 0 ? Math.max(...menuItems.map(i => i.id)) + 1 : 1
NextId(items) == IF Len(items) > 0 THEN Num(MaxId(items) + 100) ELSE JsInt(1)

\* { id: <next id>, ...req.body, available: <given or true> }
NewItem(items, body) ==
    [Spread([EmptyObject EXCEPT !.id = NextId(items)], body) EXCEPT
        !.available = IF body.available # Undef THEN body.available ELSE Bool(TRUE)]

\* { id, ...req.body }
UpdatedItem(id, body) == Spread([EmptyObject EXCEPT !.id = id], body)

\* Variant of Splice that removes the element before the one found.
SpliceBefore(items, index) ==
    IF index = 1 THEN SubSeq(items, 1, Len(items) - 1)
    ELSE SubSeq(items, 1, index - 2) \o SubSeq(items, index, Len(items))

\* Variant of Splice without the delete count: splice(index) removes every
\* element from index on.
SpliceRest(items, index) == SubSeq(items, 1, index - 1)

\* menuItems.splice(index, 1)
Splice(items, index) ==
    SubSeq(items, 1, index - 1) \o SubSeq(items, index + 1, Len(items))

\* Request bodies and path segments the clients send. The bodies: the base
\* body (no available, no id); a name with blanks around it and a markup
\* character, available false; a numeric name; a body that carries an id key;
\* a negative price; the empty object; a name and a description too short
\* once trimmed; a numeric name with a zero price; a wrong category, no
\* ingredient and a non-boolean available. Scalar fields are never arrays here.
\* The segments: two ids of the seed, the id after the last seed, a non-numeral
\* and a numeral followed by letters.
BasePayload ==
    Item(Undef, Str(<<"V", "e", "g", "g", "i", "e", " ", "W", "r", "a", "p">>), Str(<<"F", "r", "e", "s", "h", " ", "v", "e", "g", "g", "i", "e", "s", " ", "w", "r", "a", "p", "p", "e", "d", " ", "i", "n", " ", "a", " ", "t", "o", "r", "t", "i", "l", "l", "a">>),
         Num(650), Str(<<"e", "n", "t", "r", "e", "e">>), Arr(<<"veggies", "tortilla">>), Undef)

Payloads ==
    { BasePayload,
      [BasePayload EXCEPT !.name = Str(<<" ", " ", "F", "i", "s", "h", " ", "&", " ", "C", "h", "i", "p", "s", " ">>), !.available = Bool(FALSE)],
      [BasePayload EXCEPT !.name = JsInt(12345)],
      [BasePayload EXCEPT !.id = JsInt(1), !.available = Bool(TRUE)],
      [BasePayload EXCEPT !.price = Num(-500)],
      EmptyObject,
      [BasePayload EXCEPT !.name = Str(<<" ", "a", "b", " ">>), !.description = Str(<<"T", "o", "o", " ", "s", "h", "o", "r", "t">>)],
      [BasePayload EXCEPT !.name = JsInt(12345), !.price = Num(0)],
      [BasePayload EXCEPT !.category = Str(<<"s", "n", "a", "c", "k">>), !.ingredients = Arr(<<>>),
                          !.available = Str(<<"y", "e", "s">>)] }

PathSegments == { <<"1">>, <<"8">>, <<"9">>, <<"a", "b", "c">>, <<"8", "a", "b">> }

\* Methods and paths sent outside the menu routes: a misspelt collection, a
\* create with an id, a delete and an update without one, a method no route
\* takes, a path one segment too long; the root and the list are routed.
OtherRequests ==
    { <<"GET", << <<"a", "p", "i">>, <<"m", "e", "n", "u", "s">> >> >>,
      <<"POST", MenuPath(<<"8">>)>>,
      <<"DELETE", MenuPath(<<>>)>>,
      <<"PUT", MenuPath(<<>>)>>,
      <<"PATCH", MenuPath(<<"8">>)>>,
      <<"GET", MenuPath(<<"8">>) \o << <<"x">> >> >>,
      <<"GET", <<>> >>,
      <<"GET", MenuPath(<<>>)>> }

NoRequest == UnroutedRequest("NONE", <<>>)
NoResponse == Response(0, "none", "", <<>>, <<>>)

\* Requests that clients send at the same time: two creates without an id, a
\* create that carries one, a create that fails validation, an update and a
\* delete of item 8, a delete of the first id a create assigns.
ConcurrentRequests ==
    { Request("POST", <<>>, BasePayload),
      Request("POST", <<>>, [BasePayload EXCEPT !.id = JsInt(1), !.available = Bool(TRUE)]),
      Request("POST", <<>>, [BasePayload EXCEPT !.price = Num(-500)]),
      Request("PUT", <<"8">>, BasePayload),
      Request("DELETE", <<"8">>, EmptyObject),
      Request("DELETE", <<"9">>, EmptyObject) }

Clients == 1..MaxClients

\* A connection's request on its way through the middleware: the request as
\* sent, req as the middleware run so far has left it, and the response.
Flight(phase, sent, r, response) ==
    [phase |-> phase, sent |-> sent, req |-> r, res |-> response]

Idle == Flight("idle", NoRequest, NoRequest, NoResponse)

Init ==
    /\ menuItems = SeedItems
    /\ req = NoRequest
    /\ res = NoResponse
    /\ deleted = {}
    /\ handled = 0
    /\ inflight = [c \in Clients |-> Idle]
    /\ order = <<>>

\* app.get('/')
Root ==
    /\ handled < MaxRequests
    /\ handled' = handled + 1
    /\ UNCHANGED <<inflight, order>>
    /\ req' = UnroutedRequest("GET", <<>>)
    /\ res' = RootResponse
    /\ UNCHANGED <<menuItems, deleted>>

\* Variant of CatchAll that answers with the body of the item routes.
CatchAllItemNotFound(method, path) ==
    /\ handled < MaxRequests
    /\ Route(method, path) = "none"
    /\ handled' = handled + 1
    /\ UNCHANGED <<inflight, order>>
    /\ req' = UnroutedRequest(method, path)
    /\ res' = NotFoundResponse
    /\ UNCHANGED <<menuItems, deleted>>

\* app.use((req, res) => ...), registered after every route
CatchAll(method, path) ==
    /\ handled < MaxRequests
    /\ Route(method, path) = "none"
    /\ handled' = handled + 1
    /\ UNCHANGED <<inflight, order>>
    /\ req' = UnroutedRequest(method, path)
    /\ res' = RouteNotFoundResponse(path)
    /\ UNCHANGED <<menuItems, deleted>>

\* app.get('/api/menu')
GetAll ==
    /\ handled < MaxRequests
    /\ handled' = handled + 1
    /\ UNCHANGED <<inflight, order>>
    /\ req' = Request("GET", <<>>, EmptyObject)
    /\ res' = ListResponse(menuItems)
    /\ UNCHANGED <<menuItems, deleted>>

\* app.get('/api/menu/:id')
GetById(segment) ==
    /\ handled < MaxRequests
    /\ handled' = handled + 1
    /\ UNCHANGED <<inflight, order>>
    /\ req' = Request("GET", segment, EmptyObject)
    /\ LET id == ParseInt(segment)
           index == FindIndex(menuItems, id)
       IN  res' = IF index = 0 THEN NotFoundResponse
                  ELSE ItemResponse(200, menuItems[index])
    /\ UNCHANGED <<menuItems, deleted>>

\* Variant of Post whose validation middleware answers 400 without returning,
\* so that the handler still runs.
PostMissingReturn(body) ==
    /\ handled < MaxRequests
    /\ handled' = handled + 1
    /\ UNCHANGED <<inflight, order>>
    /\ req' = Request("POST", <<>>, body)
    /\ LET v == menuValidation(body)
           newItem == NewItem(menuItems, v.body)
       IN  /\ menuItems' = Append(menuItems, newItem)
           /\ res' = IF v.errors # <<>> THEN ValidationErrorResponse(v.errors)
                     ELSE ItemResponse(201, newItem)
    /\ UNCHANGED deleted

\* app.post('/api/menu', menuValidation, handleValidationErrors, handler)
Post(body) ==
    /\ handled < MaxRequests
    /\ handled' = handled + 1
    /\ UNCHANGED <<inflight, order>>
    /\ req' = Request("POST", <<>>, body)
    /\ LET v == menuValidation(body)
       IN  IF v.errors # <<>>
           THEN /\ res' = ValidationErrorResponse(v.errors)
                /\ UNCHANGED menuItems
           ELSE LET newItem == NewItem(menuItems, v.body)
                IN  /\ menuItems' = Append(menuItems, newItem)
                    /\ res' = ItemResponse(201, newItem)
    /\ UNCHANGED deleted

\* Variant of Put that looks the id up before it validates the body.
PutLookupFirst(segment, body) ==
    /\ handled < MaxRequests
    /\ handled' = handled + 1
    /\ UNCHANGED <<inflight, order>>
    /\ req' = Request("PUT", segment, body)
    /\ LET v == menuValidation(body)
           id == ParseInt(segment)
           index == FindIndex(menuItems, id)
       IN  IF index = 0
           THEN /\ res' = NotFoundResponse
                /\ UNCHANGED menuItems
           ELSE IF v.errors # <<>>
           THEN /\ res' = ValidationErrorResponse(v.errors)
                /\ UNCHANGED menuItems
           ELSE /\ menuItems' = [menuItems EXCEPT ![index] = UpdatedItem(id, v.body)]
                /\ res' = ItemResponse(200, menuItems'[index])
    /\ UNCHANGED deleted

\* app.put('/api/menu/:id', menuValidation, handleValidationErrors, handler)
Put(segment, body) ==
    /\ handled < MaxRequests
    /\ handled' = handled + 1
    /\ UNCHANGED <<inflight, order>>
    /\ req' = Request("PUT", segment, body)
    /\ LET v == menuValidation(body)
           id == ParseInt(segment)
           index == FindIndex(menuItems, id)
       IN  IF v.errors # <<>>
           THEN /\ res' = ValidationErrorResponse(v.errors)
                /\ UNCHANGED menuItems
           ELSE IF index = 0
           THEN /\ res' = NotFoundResponse
                /\ UNCHANGED menuItems
           ELSE /\ menuItems' = [menuItems EXCEPT ![index] = UpdatedItem(id, v.body)]
                /\ res' = ItemResponse(200, menuItems'[index])
    /\ UNCHANGED deleted

\* Variant of Delete without the index === -1 test: splice(-1, 1) removes the
\* last element.
DeleteNoCheck(segment) ==
    /\ handled < MaxRequests
    /\ handled' = handled + 1
    /\ UNCHANGED <<inflight, order>>
    /\ req' = Request("DELETE", segment, EmptyObject)
    /\ LET id == ParseInt(segment)
           index == FindIndex(menuItems, id)
       IN  /\ menuItems' = IF index = 0 THEN SubSeq(menuItems, 1, Len(menuItems) - 1)
                           ELSE Splice(menuItems, index)
           /\ res' = DeletedResponse
           /\ deleted' = deleted \cup {id}

\* app.delete('/api/menu/:id')
Delete(segment) ==
    /\ handled < MaxRequests
    /\ handled' = handled + 1
    /\ UNCHANGED <<inflight, order>>
    /\ req' = Request("DELETE", segment, EmptyObject)
    /\ LET id == ParseInt(segment)
           index == FindIndex(menuItems, id)
       IN  IF index = 0
           THEN /\ res' = NotFoundResponse
                /\ UNCHANGED <<menuItems, deleted>>
           ELSE /\ menuItems' = Splice(menuItems, index)
                /\ res' = DeletedResponse
                /\ deleted' = deleted \cup {id}

\* (req, res) => { ... } of app.post: the handler after the middleware
PostHandler(items, body) ==
    LET newItem == NewItem(items, body)
    IN  [items |-> Append(items, newItem), res |-> ItemResponse(201, newItem)]

\* (req, res) => { ... } of app.put
PutHandler(items, segment, body) ==
    LET id == ParseInt(segment)
        index == FindIndex(items, id)
        updated == [items EXCEPT ![index] = UpdatedItem(id, body)]
    IN  IF index = 0 THEN [items |-> items, res |-> NotFoundResponse]
        ELSE [items |-> updated, res |-> ItemResponse(200, updated[index])]

\* (req, res) => { ... } of app.delete
DeleteHandler(items, segment) ==
    LET id == ParseInt(segment)
        index == FindIndex(items, id)
    IN  IF index = 0 THEN [items |-> items, res |-> NotFoundResponse]
        ELSE [items |-> Splice(items, index), res |-> DeletedResponse]

\* A request reaches the server while others are in flight.
Arrive(c, r) ==
    /\ inflight[c].phase = "idle"
    /\ inflight' = [inflight EXCEPT ![c] = Flight("received", r, r, NoResponse)]
    /\ UNCHANGED <<menuItems, req, res, deleted, handled, order>>

\* menuValidation, handleValidationErrors of one POST or PUT in flight: the
\* chains are asynchronous, so other requests run between them and the handler.
Validate(c) ==
    /\ inflight[c].phase = "received"
    /\ inflight[c].req.method \in {"POST", "PUT"}
    /\ LET v == menuValidation(inflight[c].req.body)
           r == [inflight[c].req EXCEPT !.body = v.body]
       IN  IF v.errors # <<>>
           THEN /\ inflight' = [inflight EXCEPT ![c] =
                        Flight("done", @.sent, r, ValidationErrorResponse(v.errors))]
                /\ req' = r
                /\ res' = ValidationErrorResponse(v.errors)
                /\ handled' = handled + 1
           ELSE /\ inflight' = [inflight EXCEPT ![c] = Flight("validated", @.sent, r, NoResponse)]
                /\ UNCHANGED <<req, res, handled>>
    /\ UNCHANGED <<menuItems, deleted, order>>

\* The handler of app.post for one request in flight: synchronous, so it runs
\* from its first line to its last with no other request in between.
HandlePost(c) ==
    /\ inflight[c].phase = "validated"
    /\ inflight[c].req.method = "POST"
    /\ LET h == PostHandler(menuItems, inflight[c].req.body)
       IN  /\ menuItems' = h.items
           /\ res' = h.res
           /\ inflight' = [inflight EXCEPT ![c] = Flight("done", @.sent, @.req, h.res)]
    /\ req' = inflight[c].req
    /\ handled' = handled + 1
    /\ order' = Append(order, c)
    /\ UNCHANGED deleted

\* The handler of app.put for one request in flight.
HandlePut(c) ==
    /\ inflight[c].phase = "validated"
    /\ inflight[c].req.method = "PUT"
    /\ LET h == PutHandler(menuItems, inflight[c].req.segment, inflight[c].req.body)
       IN  /\ menuItems' = h.items
           /\ res' = h.res
           /\ inflight' = [inflight EXCEPT ![c] = Flight("done", @.sent, @.req, h.res)]
    /\ req' = inflight[c].req
    /\ handled' = handled + 1
    /\ order' = Append(order, c)
    /\ UNCHANGED deleted

\* The handler of app.delete for one request in flight; the route has no
\* validation middleware.
HandleDelete(c) ==
    /\ inflight[c].phase = "received"
    /\ inflight[c].req.method = "DELETE"
    /\ LET h == DeleteHandler(menuItems, inflight[c].req.segment)
       IN  /\ menuItems' = h.items
           /\ res' = h.res
           /\ inflight' = [inflight EXCEPT ![c] = Flight("done", @.sent, @.req, h.res)]
           /\ deleted' = IF h.res = DeletedResponse
                         THEN deleted \cup {ParseInt(inflight[c].req.segment)}
                         ELSE deleted
    /\ req' = inflight[c].req
    /\ handled' = handled + 1
    /\ order' = Append(order, c)

Next ==
    \/ GetAll
    \/ \E segment \in PathSegments : GetById(segment)
    \/ \E body \in Payloads : Post(body)
    \/ \E segment \in PathSegments, body \in Payloads : Put(segment, body)
    \/ \E segment \in PathSegments : Delete(segment)
    \/ Root
    \/ \E r \in OtherRequests : CatchAll(r[1], r[2])

Spec == Init /\ [][Next]_vars

\* The server with several requests in flight: node runs one callback at a
\* time, and a request gives way to the others between its middleware.
NextConcurrent ==
    \/ \E c \in Clients, r \in ConcurrentRequests : Arrive(c, r)
    \/ \E c \in Clients : Validate(c)
    \/ \E c \in Clients : HandlePost(c)
    \/ \E c \in Clients : HandlePut(c)
    \/ \E c \in Clients : HandleDelete(c)

SpecConcurrent == Init /\ [][NextConcurrent]_vars

(***************************************************************************)
(* Vocabulary of the properties                                            *)
(***************************************************************************)
Ids(items) == {items[k].id : k \in 1..Len(items)}

Count(items, id) == Cardinality({k \in 1..Len(items) : items[k].id = id})

IsWrite(r) == Route(r.method, r.path) \in {"post", "put"}

\* The validator reports at least one error for the body.
Rejected(body) == menuValidation(body).errors # <<>>

\* The body as the handler sees it after the sanitizers of menuValidation.
Accepted(body) == menuValidation(body).body

\* The rules on a stored item or a payload, field by field, as the data model
\* words them; text is measured after trimming.
RuleBroken(f, v) ==
    CASE f = "name" -> ~(v.t = "string" /\ Len(Trim(v.s)) >= 3)
      [] f = "description" -> ~(v.t = "string" /\ Len(Trim(v.s)) >= 10)
      [] f = "price" -> ~(v.t = "number" /\ ~IsNaN(v) /\ v.n > 0)
      [] f = "category" -> ~(v.t = "string" /\ v.s \in Categories)
      [] f = "ingredients" -> ~(v.t = "array" /\ Len(v.s) >= 1)
      [] f = "available" -> ~(v.t \in {"boolean", "undefined"})
      [] OTHER -> FALSE

ViolatedFields(body) == {f \in Fields : RuleBroken(f, body[f])}

ErrorFields(r) == {r.errors[k].field : k \in 1..Len(r.errors)}

\* C1: no two items of the store have the same id, in every reachable state.
C1_UniqueIds ==
    \A i, j \in 1..Len(menuItems) :
        i # j => menuItems[i].id # menuItems[j].id

\* C2: a create whose payload passes validation answers 201 and the id of the
\* item returned and stored is greater than every id in the store before it.
C2_CreateIdGreater ==
    [][(req'.method = "POST" /\ ~Rejected(req'.body)) =>
          /\ res'.status = 201
          /\ res'.kind = "item"
          /\ menuItems'[Len(menuItems')] = res'.items[1]
          /\ \A k \in 1..Len(menuItems) : res'.items[1].id.n > menuItems[k].id.n]_vars

\* C3: every stored item has a text name of length >= 3, a text description of
\* length >= 10, a number price > 0, one of the four categories, a sequence of
\* ingredients of length >= 1 and a boolean available.
C3_StoredItemsValid ==
    \A k \in 1..Len(menuItems) :
        /\ \A f \in Fields \ {"id"} : ~RuleBroken(f, menuItems[k][f])
        /\ menuItems[k].available.t = "boolean"

C5_AbsentIdNotFound ==
    [][(/\ req'.method \in {"GET", "PUT", "DELETE"}
        /\ req'.segment # <<>>
        /\ req'.method = "PUT" => ~Rejected(req'.body)
        /\ ParseInt(req'.segment) \notin Ids(menuItems)) =>
          /\ res' = NotFoundResponse
          /\ menuItems' = menuItems]_vars

C5_Witness ==
    /\ req.method \in {"PUT", "DELETE"}
    /\ req.segment = <<"9">>
    /\ ~Rejected(req.body)
    /\ JsInt(9) \notin Ids(menuItems)
    /\ res = NotFoundResponse

\* C6: a successful PUT /api/menu/{k} stores and returns an item whose id is k
\* and whose other fields are those of the accepted payload, a field the payload
\* lacks being absent from the item.
C6_UpdateReplacesKeepingId ==
    (req.method = "PUT" /\ res.status = 200) =>
        /\ res.items[1].id = ParseInt(req.segment)
        /\ \E k \in 1..Len(menuItems) : menuItems[k] = res.items[1]
        /\ \A f \in Fields \ {"id"} : res.items[1][f] = Accepted(req.body)[f]

C8_CreateThenGet ==
    [][(/\ req.method = "POST"
        /\ res.status = 201
        /\ req'.method = "GET"
        /\ req'.segment # <<>>
        /\ ParseInt(req'.segment) = res.items[1].id) =>
          /\ res'.status = 200
          /\ res'.items[1].id = res.items[1].id
          /\ \A f \in {"name", "description", "price", "category", "ingredients"} :
                res'.items[1][f] = Accepted(req.body)[f]
          /\ res'.items[1].available =
                (IF req.body.available = Undef THEN Bool(TRUE)
                 ELSE req.body.available)]_vars

C10_ErrorsNameViolatedFields ==
    (IsWrite(req) /\ res.status = 400) =>
        ErrorFields(res) = ViolatedFields(req.body)

\* C11: an accepted create or update whose payload omits available stores and
\* returns an item with available = true; a given available is stored as given.
C11_AvailableDefaultsTrue ==
    (IsWrite(req) /\ res.status \in {200, 201}) =>
        /\ res.items[1].available =
              (IF req.body.available = Undef THEN Bool(TRUE) ELSE req.body.available)
        /\ \E k \in 1..Len(menuItems) : menuItems[k] = res.items[1]

\* C12: a DELETE of k that answers 200, repeated at once, answers 404 the
\* second time and does not change the store.
C12_SecondDeleteNotFound ==
    [][(/\ req.method = "DELETE"
        /\ res.status = 200
        /\ req'.method = "DELETE"
        /\ req'.segment = req.segment) =>
          /\ res' = NotFoundResponse
          /\ menuItems' = menuItems]_vars

\* C15: a successful create assigns max(ids in the store) + 1, or 1 when the
\* store is empty, and appends the new item as the last element.
C15_CreateAssignsMaxPlusOne ==
    [][(req'.method = "POST" /\ res'.status = 201) =>
          /\ res'.items[1].id =
                (IF Len(menuItems) = 0 THEN JsInt(1)
                 ELSE Num(100 + CHOOSE m \in {menuItems[k].id.n : k \in 1..Len(menuItems)} :
                                   \A j \in 1..Len(menuItems) : menuItems[j].id.n <= m))
          /\ menuItems' = Append(menuItems, res'.items[1])]_vars

\* C16: every stored id is a positive integer, and no request changes the id of
\* an item that stays in the store: an update leaves the id at every position
\* as it was, a create leaves the ids of the items already stored, and the id
\* of a created item is not the one its payload carries.
C16_IdsPositiveAndFixed ==
    [][/\ \A k \in 1..Len(menuItems') :
              /\ menuItems'[k].id.t = "number"
              /\ ~IsNaN(menuItems'[k].id)
              /\ menuItems'[k].id.n > 0
              /\ menuItems'[k].id.n % 100 = 0
       /\ req'.method \in {"POST", "PUT"} =>
              \A k \in 1..Len(menuItems) : menuItems'[k].id = menuItems[k].id
       /\ (req'.method = "POST" /\ res'.status = 201 /\ req'.body.id # Undef) =>
              menuItems'[Len(menuItems')].id # req'.body.id]_vars

\* A decimal numeral of an integer: an optional minus sign, then digits only.
IsNumeral(chars) ==
    LET u == IF chars # <<>> /\ Head(chars) = "-" THEN Tail(chars) ELSE chars
    IN  u # <<>> /\ DigitPrefixLen(u) = Len(u)

\* C17: GET, PUT (with a payload that passes validation) and DELETE on a path
\* segment that is not the decimal numeral of an integer answer 404
\* {"error": "Menu item not found"} and leave the store unchanged.
C17_MalformedIdNotFound ==
    [][(/\ req'.method \in {"GET", "PUT", "DELETE"}
        /\ req'.segment # <<>>
        /\ ~IsNumeral(req'.segment)
        /\ req'.method = "PUT" => ~Rejected(req'.body)) =>
          /\ res' = NotFoundResponse
          /\ menuItems' = menuItems]_vars

\* C14: a request whose method and path match none of the six registered
\* routes is answered 404 with the error "Route not found" and the requested
\* path, and leaves the store as it was.
C14_UnmatchedRouteNotFound ==
    [][(\/ req'.method \notin {"GET", "POST", "PUT", "DELETE"}
        \/ req'.method = "GET" /\ Len(req'.path) \notin {0, 2, 3}
        \/ req'.method = "POST" /\ Len(req'.path) # 2
        \/ req'.method \in {"PUT", "DELETE"} /\ Len(req'.path) # 3
        \/ Len(req'.path) \in {2, 3} /\ SubSeq(req'.path, 1, 2) # MenuPath(<<>>)) =>
          /\ res'.status = 404
          /\ res'.text = "Route not found"
          /\ res'.path = req'.path
          /\ res'.items = <<>>
          /\ menuItems' = menuItems]_vars

C14_Witness ==
    /\ req.method = "POST"
    /\ req.path = MenuPath(<<"8">>)
    /\ res = RouteNotFoundResponse(req.path)
    /\ menuItems = SeedItems
    /\ handled > 0

\* The store after a step is the store before it without the element at j.
RemovedAt(j) ==
    /\ Len(menuItems') = Len(menuItems) - 1
    /\ \A i \in 1..(j - 1) : menuItems'[i] = menuItems[i]
    /\ \A i \in j..Len(menuItems') : menuItems'[i] = menuItems[i + 1]

\* The store after a step is the store before it except, at most, at j.
ReplacedAt(j) ==
    /\ Len(menuItems') = Len(menuItems)
    /\ \A i \in (1..Len(menuItems)) \ {j} : menuItems'[i] = menuItems[i]

\* C18: GET /api/menu answers 200 with the whole store in store order; the
\* store starts as the seed items in seed order, a create puts its item after
\* all earlier ones, an update puts its item at the position of the item it
\* replaces, and a delete keeps the remaining items in the order they had.
C18_ListInInsertionOrder ==
    [][/\ handled = 0 => menuItems = SeedItems
       /\ Route(req'.method, req'.path) = "list" =>
             /\ res'.status = 200
             /\ res'.items = menuItems
       /\ (Route(req'.method, req'.path) = "post" /\ res'.status = 201) =>
             menuItems' = menuItems \o res'.items
       /\ (Route(req'.method, req'.path) = "put" /\ res'.status = 200) =>
             \E j \in 1..Len(menuItems) :
                /\ StrictEq(menuItems[j].id, ParseInt(req'.segment))
                /\ menuItems'[j] = res'.items[1]
                /\ ReplacedAt(j)
       /\ (Route(req'.method, req'.path) = "delete" /\ res'.status = 200) =>
             \E j \in 1..Len(menuItems) : RemovedAt(j)]_vars

C18_Witness ==
    /\ Route(req.method, req.path) = "list"
    /\ res.status = 200
    /\ res.items = menuItems
    /\ Len(menuItems) = Len(SeedItems)
    /\ SubSeq(menuItems, 1, Len(menuItems) - 1) = Tail(SeedItems)
    /\ menuItems[Len(menuItems)] \notin {SeedItems[k] : k \in 1..Len(SeedItems)}

\* C19: a GET (list or by id) leaves the store as it was; a successful DELETE
\* of id k removes one item with id k, the others stay and the store is one
\* shorter; a successful PUT on id k changes only an item that had id k and the
\* store keeps its length; a successful POST keeps every earlier item and the
\* store is one longer.
C19_Frame ==
    [][/\ Route(req'.method, req'.path) \in {"list", "get"} => menuItems' = menuItems
       /\ (Route(req'.method, req'.path) = "delete" /\ res'.status = 200) =>
             /\ Len(menuItems') = Len(menuItems) - 1
             /\ \E j \in 1..Len(menuItems) :
                   /\ StrictEq(menuItems[j].id, ParseInt(req'.segment))
                   /\ RemovedAt(j)
       /\ (Route(req'.method, req'.path) = "put" /\ res'.status = 200) =>
             /\ Len(menuItems') = Len(menuItems)
             /\ \E j \in 1..Len(menuItems) :
                   /\ StrictEq(menuItems[j].id, ParseInt(req'.segment))
                   /\ ReplacedAt(j)
       /\ (Route(req'.method, req'.path) = "post" /\ res'.status = 201) =>
             /\ Len(menuItems') = Len(menuItems) + 1
             /\ \A i \in 1..Len(menuItems) : menuItems'[i] = menuItems[i]]_vars

C19_Witness ==
    /\ Route(req.method, req.path) = "put"
    /\ res.status = 200
    /\ Len(menuItems) = Len(SeedItems) - 1
    /\ \E j \in 1..Len(menuItems) :
          /\ menuItems[j] = res.items[1]
          /\ menuItems[j] \notin {SeedItems[k] : k \in 1..Len(SeedItems)}
          /\ \A i \in (1..Len(menuItems)) \ {j} :
                menuItems[i] \in {SeedItems[k] : k \in 1..Len(SeedItems)}

\* One request handled from start to end with no other request in flight:
\* validation, then the handler, on the store it finds.
Sequential(items, r) ==
    LET v == menuValidation(r.body)
    IN  IF r.method \in {"POST", "PUT"} /\ v.errors # <<>>
        THEN [items |-> items, res |-> ValidationErrorResponse(v.errors)]
        ELSE IF r.method = "POST" THEN PostHandler(items, v.body)
        ELSE IF r.method = "PUT" THEN PutHandler(items, r.segment, v.body)
        ELSE DeleteHandler(items, r.segment)

\* The store and the responses after the requests rs, handled one after the
\* other from the store items.
RECURSIVE Replay(_, _)
Replay(items, rs) ==
    IF rs = <<>> THEN [items |-> items, res |-> <<>>]
    ELSE LET h == Sequential(items, Head(rs))
             t == Replay(h.items, Tail(rs))
         IN  [items |-> t.items, res |-> <<h.res>> \o t.res]

\* The store and every response sent are those of the requests handled one
\* at a time in the order in which their handlers ran; a request answered by
\* the validation middleware has the response it gets in any such order.
C13_Serializable ==
    LET run == Replay(SeedItems, [k \in 1..Len(order) |-> inflight[order[k]].sent])
    IN  /\ menuItems = run.items
        /\ \A k \in 1..Len(order) : inflight[order[k]].res = run.res[k]
        /\ \A c \in Clients :
              (inflight[c].phase = "done" /\ \A k \in 1..Len(order) : order[k] # c) =>
                  /\ Sequential(menuItems, inflight[c].sent).items = menuItems
                  /\ Sequential(menuItems, inflight[c].sent).res = inflight[c].res

\* C13: with requests in flight at the same time, the store is the result of
\* handling them one at a time in some order, and no two creates are answered
\* with the same id.
C13_OneAtATime ==
    /\ C13_Serializable
    /\ \A c, d \in Clients :
          (/\ c # d
           /\ inflight[c].sent.method = "POST" /\ inflight[c].res.status = 201
           /\ inflight[d].sent.method = "POST" /\ inflight[d].res.status = 201) =>
              inflight[c].res.items[1].id # inflight[d].res.items[1].id

====
